---------------------------- MODULE Spec2Model ----------------------------
(***************************************************************************)
(* Model of the ThalAI donor-availability prediction service               *)
(* (thalai-ai-service/app.py): artifact loading at startup, the recency    *)
(* calculation, feature derivation, the rule-based fallback scorer, the    *)
(* model/fallback arbitration and the two HTTP handlers.                   *)
(*                                                                         *)
(* Numbers that are floats in the program are fixed-point integers here:   *)
(*   - a score is counted in hundredths of a point (round(score, 2)),      *)
(*   - a raw model prediction is counted in units of 1/PredUnitsPerOne,    *)
(*   - a region factor is counted in hundredths,                           *)
(*   - a point in time is counted in ticks, TicksPerDay ticks to a day.    *)
(* A JSON value is a record [t, v]: t is its type tag ("absent" for a key  *)
(* that the object does not hold, "null", "int", "str", "list"), v its     *)
(* payload. A string that matters character by character (the region) is   *)
(* a sequence of one-character strings.                                    *)
(***************************************************************************)
EXTENDS Integers, Sequences, FiniteSets, TLC

VARIABLES
    phase,      \* "start" before load_model has run, "serving" after
    model,      \* the global `model`: NoneObj or a loaded artifact
    scaler,     \* the global `scaler`: NoneObj or a loaded artifact
    req,        \* the body of the request the client is sending
    resp,       \* the last HTTP exchange: request, response and what ran
    call        \* a direct call of a module function (unit level)

vars == <<phase, model, scaler, req, resp, call>>

-----------------------------------------------------------------------------
(* Scales of the fixed-point representation *)

\* round(score, 2): a score has two decimals, a hundred steps to the point
CentiPerPoint == 100

\* resolution of the float that model.predict returns: 1/100000
PredUnitsPerOne == 100000

\* resolution of datetime differences before .days truncates them
TicksPerDay == 2

\* the earliest datetime.now() of the model, in ticks
NowTick == 2000

\* the values datetime.now() takes: on a day boundary and half a day later
Nows == {NowTick, NowTick + 1}

-----------------------------------------------------------------------------
(* Python objects *)

\* A loaded artifact is truthy (`if scaler:`, `if model:`): the fitted
\* RandomForestRegressor has 100 estimators, StandardScaler has no __len__
NoneObj == "None"
Loaded == "loaded"

Max(a, b) == IF a >= b THEN a ELSE b
Min(a, b) == IF a <= b THEN a ELSE b

JAbsent == [t |-> "absent", v |-> 0]
JNull == [t |-> "null", v |-> 0]
JInt(n) == [t |-> "int", v |-> n]
JStr(s) == [t |-> "str", v |-> s]
JList(s) == [t |-> "list", v |-> s]
\* not JSON: a native datetime, or a native date, handed to a function
PyDatetime(wall, tz) == [t |-> "datetime", v |-> [fmt |-> "native", wall |-> wall, tz |-> tz]]
PyDate(wall) == [t |-> "date", v |-> [fmt |-> "native", wall |-> wall, tz |-> "none"]]

\* dict.get(key, default): the default only when the key is absent; a key
\* that holds null yields None
DictGet(value, default) == IF value.t = "absent" THEN default ELSE value

-----------------------------------------------------------------------------
(* load_model *)

FileStates == {"absent", "good", "corrupt"}

\* The globals after load_model() with the two files in the given states.
\* A load that raises (pickle.load or open) lands in the except clause,
\* which resets both globals.
load_model_result(modelFile, scalerFile) ==
    IF modelFile = "corrupt" THEN [model |-> NoneObj, scaler |-> NoneObj, raised |-> FALSE]
    ELSE IF scalerFile = "corrupt" THEN [model |-> NoneObj, scaler |-> NoneObj, raised |-> FALSE]
    ELSE [model |-> IF modelFile = "good" THEN Loaded ELSE NoneObj,
          scaler |-> IF scalerFile = "good" THEN Loaded ELSE NoneObj,
          raised |-> FALSE]

-----------------------------------------------------------------------------
(* calculate_days_since_last_donation *)

DefaultDays == 365

\* A date string: fmt "iso" parses, "bad" does not, "empty" is ''.
\* wall is its wall-clock time in ticks, tz its suffix.
DateStr(fmt, wall, tz) == [fmt |-> fmt, wall |-> wall, tz |-> tz]

\* str.replace('Z', '+00:00')
ReplaceZ(s) == IF s.tz = "Z" THEN [s EXCEPT !.tz = "+00:00"] ELSE s

\* datetime.fromisoformat: a datetime [wall, tz], or a ValueError
FromIsoFormat(s) ==
    IF s.fmt = "iso" /\ s.tz \in {"none", "+00:00", "+05:30"}
    THEN [ok |-> TRUE, wall |-> s.wall, tz |-> s.tz]
    ELSE [ok |-> FALSE, wall |-> 0, tz |-> "none"]

\* Python truthiness of a JSON value (the strings tested are date strings)
Truthy(x) ==
    CASE x.t = "absent" -> FALSE
      [] x.t = "null" -> FALSE
      [] x.t = "int" -> x.v # 0
      [] x.t = "str" -> x.v.fmt # "empty"
      [] x.t = "list" -> Len(x.v) > 0
      [] x.t \in {"datetime", "date"} -> TRUE

\* The try block (lines 50-56): the day count, or an exception
days_try(last_donation_date, now) ==
    IF last_donation_date.t = "str"
    THEN LET parsed == FromIsoFormat(ReplaceZ(last_donation_date.v))
         IN IF parsed.ok
            THEN \* last_date.replace(tzinfo=None) keeps the wall time
                 [exc |-> FALSE,
                  value |-> Max(0, (now - parsed.wall) \div TicksPerDay)]
            ELSE [exc |-> TRUE, value |-> 0]
    ELSE IF last_donation_date.t = "datetime"
    THEN [exc |-> FALSE,
          value |-> Max(0, (now - last_donation_date.v.wall) \div TicksPerDay)]
    ELSE \* an int or a list has no .replace, date.replace takes no tzinfo
         [exc |-> TRUE, value |-> 0]

\* Mutant: the except clause of lines 57-58 left out
calculate_days_since_last_donation_NoExcept(last_donation_date, now) ==
    IF ~Truthy(last_donation_date)
    THEN [raised |-> FALSE, value |-> DefaultDays]
    ELSE LET r == days_try(last_donation_date, now)
         IN [raised |-> r.exc, value |-> r.value]

\* The whole function: [raised, value]
calculate_days_since_last_donation(last_donation_date, now) ==
    IF ~Truthy(last_donation_date)
    THEN [raised |-> FALSE, value |-> DefaultDays]
    ELSE LET r == days_try(last_donation_date, now)
         IN IF r.exc
            THEN [raised |-> FALSE, value |-> DefaultDays]
            ELSE [raised |-> FALSE, value |-> r.value]

-----------------------------------------------------------------------------
(* calculate_fallback_score *)

BaseScore == 50

AgeFactor(age) ==
    IF 25 <= age /\ age <= 45 THEN 15
    ELSE IF (18 <= age /\ age < 25) \/ (45 < age /\ age <= 60) THEN 10
    ELSE 5

\* Mutant: the top band begins above 10 instead of at 10
FrequencyFactor_OffByOne(donation_frequency) ==
    IF donation_frequency > 10 THEN 20
    ELSE IF donation_frequency >= 5 THEN 15
    ELSE IF donation_frequency >= 2 THEN 10
    ELSE IF donation_frequency >= 1 THEN 5
    ELSE 0

FrequencyFactor(donation_frequency) ==
    IF donation_frequency >= 10 THEN 20
    ELSE IF donation_frequency >= 5 THEN 15
    ELSE IF donation_frequency >= 2 THEN 10
    ELSE IF donation_frequency >= 1 THEN 5
    ELSE 0

RecencyFactor(days_since) ==
    IF 56 <= days_since /\ days_since <= 90 THEN 15
    ELSE IF 30 <= days_since /\ days_since < 56 THEN 10
    ELSE IF 90 < days_since /\ days_since <= 180 THEN 5
    ELSE IF days_since > 180 THEN -5
    ELSE 0

\* Mutant: the score starts from a base that depends on the model global
calculate_fallback_score_Stateful(age, donation_frequency, days_since) ==
    Max(0, Min(100, (IF model # NoneObj THEN BaseScore - 5 ELSE BaseScore)
                      + AgeFactor(age)
                      + FrequencyFactor(donation_frequency)
                      + RecencyFactor(days_since)))

calculate_fallback_score(age, donation_frequency, days_since) ==
    Max(0, Min(100, BaseScore + AgeFactor(age)
                      + FrequencyFactor(donation_frequency)
                      + RecencyFactor(days_since)))

-----------------------------------------------------------------------------
(* Region encoding *)

LowerChar(c) ==
    CASE c = "N" -> "n" [] c = "O" -> "o" [] c = "R" -> "r" [] c = "T" -> "t"
      [] c = "H" -> "h" [] c = "S" -> "s" [] c = "U" -> "u" [] c = "E" -> "e"
      [] c = "A" -> "a" [] c = "W" -> "w" [] c = "C" -> "c" [] c = "L" -> "l"
      [] c = "K" -> "k" [] c = "M" -> "m"
      [] OTHER -> c

\* str.lower()
Lower(s) == [i \in 1..Len(s) |-> LowerChar(s[i])]

\* region_map.get(key, 0.2), in hundredths
region_map_get(key) ==
    CASE key = <<"n", "o", "r", "t", "h">> -> 20
      [] key = <<"s", "o", "u", "t", "h">> -> 30
      [] key = <<"e", "a", "s", "t">> -> 25
      [] key = <<"w", "e", "s", "t">> -> 25
      [] key = <<"c", "e", "n", "t", "r", "a", "l">> -> 30
      [] key = <<"u", "n", "k", "n", "o", "w", "n">> -> 20
      [] OTHER -> 20

\* region_map.get(region.lower(), 0.2): only a str has .lower()
region_factor_of(region) ==
    IF region.t = "str"
    THEN [exc |-> FALSE, value |-> region_map_get(Lower(region.v))]
    ELSE [exc |-> TRUE, value |-> 0]

-----------------------------------------------------------------------------
(* Feature engineering: the 7 features in order; the two quotients are kept *)
(* as numerator and denominator                                             *)

Features(age, donation_frequency, days_since, region_factor, health_flags_count) ==
    <<age, donation_frequency, days_since, region_factor, health_flags_count,
      <<donation_frequency, Max(age - 18, 1)>>,
      <<Max(0, 90 - days_since), 90>>>>

-----------------------------------------------------------------------------
(* Scoring on the trained path *)

\* Mutant: the clamp of line 115 left out
ClampPrediction_NoClamp(prediction) == prediction * 100

\* max(0, min(100, prediction * 100)) in units of 1/PredUnitsPerOne point
ClampPrediction(prediction) == Max(0, Min(100 * PredUnitsPerOne, prediction * 100))

UnitsPerCenti == PredUnitsPerOne \div CentiPerPoint

\* round(x, 2): the nearest hundredth. On an exact decimal tie the binary
\* float decides, so either neighbour can come out: tieUp picks which.
IsTie(x) == 2 * (x % UnitsPerCenti) = UnitsPerCenti

Round2(x, tieUp) ==
    LET lo == x \div UnitsPerCenti
        rem == x % UnitsPerCenti
    IN IF 2 * rem < UnitsPerCenti THEN lo
       ELSE IF 2 * rem > UnitsPerCenti THEN lo + 1
       ELSE IF tieUp THEN lo + 1 ELSE lo

-----------------------------------------------------------------------------
(* predict_availability *)

\* What the opaque artifacts do on one call. scaler.transform returns or
\* raises; model.predict returns a number, raises, or returns something
\* that is no number (None, a string, a nested list), which makes line 113
\* or 115 raise inside the try.
ScalerOutcomes == {"ok", "raise"}

\* tieUp: which way the float of a value on a rounding tie falls
ModelValue(v, tieUp) == [kind |-> "value", v |-> v, tieUp |-> tieUp]
ModelRaise == [kind |-> "raise", v |-> 0, tieUp |-> FALSE]
ModelMalformed == [kind |-> "malformed", v |-> 0, tieUp |-> FALSE]

\* The result of a call that did not return: the exception and where it began
Raised(cause, scalerCalled, days, regionFactor) ==
    [raised |-> TRUE, cause |-> cause, score |-> 0, path |-> "none",
     scalerCalled |-> scalerCalled, modelCalled |-> FALSE,
     heuristicCalled |-> FALSE, days |-> days, regionFactor |-> regionFactor,
     pred |-> 0, features |-> <<>>]

\* Lines 110-121: the score of the model or of the fallback, rounded
score_step(age, frequency, days_since, region_factor, features, scalerCalled, modelOutcome) ==
    LET fallback == calculate_fallback_score(age, frequency, days_since)
        base == [raised |-> FALSE, cause |-> "", score |-> 0, path |-> "none",
                 scalerCalled |-> scalerCalled, modelCalled |-> FALSE,
                 heuristicCalled |-> FALSE, days |-> days_since,
                 regionFactor |-> region_factor, pred |-> 0,
                 features |-> features]
    IN IF model # NoneObj
       THEN IF modelOutcome.kind = "value"
            THEN [base EXCEPT !.modelCalled = TRUE, !.path = "model",
                              !.pred = modelOutcome.v,
                              !.score = Round2(ClampPrediction(modelOutcome.v),
                                                modelOutcome.tieUp)]
            ELSE \* the bare except of line 116
                 [base EXCEPT !.modelCalled = TRUE, !.heuristicCalled = TRUE,
                              !.path = "heuristic",
                              !.score = fallback * CentiPerPoint]
       ELSE [base EXCEPT !.heuristicCalled = TRUE, !.path = "heuristic",
                         !.score = fallback * CentiPerPoint]

predict_availability(donor_data, now, scalerOutcome, modelOutcome) ==
    LET age == donor_data.age.v
        donation_frequency == donor_data.donationFrequency.v
        d == calculate_days_since_last_donation(donor_data.lastDonationDate, now)
        rf == region_factor_of(donor_data.region)
        health_flags_count == IF Truthy(donor_data.healthFlags)
                              THEN Len(donor_data.healthFlags.v) ELSE 0
        features == Features(age, donation_frequency, d.value, rf.value,
                             health_flags_count)
    IN IF d.raised THEN Raised("date", FALSE, 0, 0)
       ELSE IF rf.exc THEN Raised("region", FALSE, d.value, 0)
       ELSE IF scaler # NoneObj /\ scalerOutcome = "raise"
            THEN \* line 108 stands outside every try
                 Raised("transform", TRUE, d.value, rf.value)
       ELSE score_step(age, donation_frequency, d.value, rf.value, features,
                       scaler # NoneObj, modelOutcome)

-----------------------------------------------------------------------------
(* The HTTP handlers *)

ObjectBody(age, freq, date, region, flags, donorId) ==
    [kind |-> "object", len |-> 0, age |-> age, donationFrequency |-> freq,
     lastDonationDate |-> date, region |-> region, healthFlags |-> flags,
     donorId |-> donorId]

\* A body that is no JSON object: request.json is None ("none"), raises
\* ("malformed"), or is an array of len items ("array")
OtherBody(kind, len) ==
    [kind |-> kind, len |-> len, age |-> JAbsent, donationFrequency |-> JAbsent,
     lastDonationDate |-> JAbsent, region |-> JAbsent, healthFlags |-> JAbsent,
     donorId |-> JAbsent]

Keys(body) ==
    {k \in {"age", "donationFrequency", "lastDonationDate", "region",
            "healthFlags", "donorId"} : body[k].t # "absent"}

\* Mutant: `data is None` instead of `not data`
NotData_NoneOnly(body) == body.kind = "none"

\* `not data` of line 172: None, {} and [] are falsy
NotData(body) ==
    \/ body.kind = "none"
    \/ body.kind = "array" /\ body.len = 0
    \/ body.kind = "object" /\ Keys(body) = {}

\* an exchange in which predict_availability did not run
NoOutcome == [Raised("", FALSE, 0, 0) EXCEPT !.raised = FALSE]

NoResponse ==
    [kind |-> "none", status |-> 0, body |-> OtherBody("none", 0), now |-> 0,
     error |-> "", success |-> FALSE, hasSuccess |-> FALSE, donorId |-> JAbsent,
     score |-> 0, confidence |-> 0, model_used |-> "", model_loaded |-> FALSE,
     reached |-> FALSE, out |-> NoOutcome]

ConfidenceTrained == 85
ConfidenceFallback == 70

\* predict(): the response to one POST /predict-availability
predict_response(body, now, scalerOutcome, modelOutcome) ==
    LET exchange == [NoResponse EXCEPT !.kind = "predict", !.body = body, !.now = now]
        error500(cause, reached, out) ==
            [exchange EXCEPT !.status = 500, !.error = cause, !.hasSuccess = TRUE,
                        !.reached = reached, !.out = out]
    IN IF body.kind = "malformed"
       THEN error500("json", FALSE, NoResponse.out)
       ELSE IF NotData(body)
       THEN [exchange EXCEPT !.status = 400, !.error = "No data provided"]
       ELSE IF body.kind # "object"
       THEN \* data.get on a list: AttributeError
            error500("body-type", FALSE, NoResponse.out)
       ELSE LET donor_data ==
                    [age |-> DictGet(body.age, JInt(30)),
                     donationFrequency |-> DictGet(body.donationFrequency, JInt(0)),
                     lastDonationDate |-> DictGet(body.lastDonationDate, JNull),
                     region |-> DictGet(body.region,
                                        JStr(<<"u", "n", "k", "n", "o", "w", "n">>)),
                     healthFlags |-> DictGet(body.healthFlags, JList(<<>>))]
                out == predict_availability(donor_data, now, scalerOutcome,
                                            modelOutcome)
            IN IF out.raised
               THEN error500(out.cause, TRUE, out)
               ELSE [exchange EXCEPT !.status = 200, !.success = TRUE,
                                !.hasSuccess = TRUE, !.reached = TRUE,
                                !.donorId = DictGet(body.donorId, JNull),
                                !.score = out.score,
                                !.confidence = IF model # NoneObj
                                               THEN ConfidenceTrained
                                               ELSE ConfidenceFallback,
                                !.model_used = IF model # NoneObj THEN "trained"
                                               ELSE "fallback",
                                !.out = out]

\* health(): the response to one GET /health
health_response ==
    [NoResponse EXCEPT !.kind = "health", !.status = 200,
                       !.model_loaded = (model # NoneObj)]

-----------------------------------------------------------------------------
(* The inputs of the service *)

Str_south == <<"s", "o", "u", "t", "h">>
Str_unknown == <<"u", "n", "k", "n", "o", "w", "n">>

AgeInputs == {JAbsent, JInt(17)}
FrequencyInputs == {JAbsent, JInt(10)}
DateInputs ==
    {JAbsent, JStr(DateStr("bad", 0, "none")),
     JStr(DateStr("iso", NowTick - 75 * TicksPerDay, "Z")),
     JStr(DateStr("iso", NowTick + 1, "none"))}
RegionInputs ==
    {JAbsent, JNull, JStr(Str_south), JStr(<<"N", "o", "r", "t", "h">>),
     JStr(<<"m", "a", "r", "s">>)}
FlagInputs == {JAbsent, JList(<<"anemia">>)}
DonorIdInputs == {JAbsent, JStr(<<"d", "1">>)}

FieldInputs(k) ==
    CASE k = "age" -> AgeInputs
      [] k = "donationFrequency" -> FrequencyInputs
      [] k = "lastDonationDate" -> DateInputs
      [] k = "region" -> RegionInputs
      [] k = "healthFlags" -> FlagInputs
      [] k = "donorId" -> DonorIdInputs

EmptyObject == ObjectBody(JAbsent, JAbsent, JAbsent, JAbsent, JAbsent, JAbsent)

OtherBodies ==
    {OtherBody("none", 0), OtherBody("malformed", 0), OtherBody("array", 0),
     OtherBody("array", 1)}

\* raw predictions: below 0, inside [0,1] (on a rounding tie: 12.345
\* points), 1 exactly, above 1
Predictions == {-50000, 12345, 100000, 150000}

ModelOutcomes ==
    {ModelRaise, ModelMalformed}
        \cup {ModelValue(v, FALSE) : v \in Predictions}
        \cup {ModelValue(v, TRUE) : v \in {p \in Predictions : IsTie(ClampPrediction(p))}}

-----------------------------------------------------------------------------
(* The service: startup, then requests in any order *)

NoCall ==
    [fn |-> "none", age |-> 0, freq |-> 0, days |-> 0, date |-> JAbsent,
     now |-> 0, applied |-> 0, out |-> 0, prevOut |-> 0, raised |-> FALSE,
     ctx |-> NoneObj, prevCtx |-> NoneObj]

Init ==
    /\ phase = "start"
    /\ model = NoneObj
    /\ scaler = NoneObj
    /\ req = EmptyObject
    /\ resp = NoResponse
    /\ call = NoCall

\* __main__: load_model() once, then app.run
load_model ==
    /\ phase = "start"
    /\ \E modelFile \in FileStates, scalerFile \in FileStates :
         LET r == load_model_result(modelFile, scalerFile)
         IN /\ model' = r.model
            /\ scaler' = r.scaler
            /\ phase' = IF r.raised THEN "crashed" ELSE "serving"
    /\ UNCHANGED <<req, resp, call>>

\* The client writes the next request: one field of a JSON object
SetField ==
    /\ phase = "serving"
    /\ \E k \in DOMAIN EmptyObject \ {"kind", "len"} : \E v \in FieldInputs(k) :
         req' = [(IF req.kind = "object" THEN req ELSE EmptyObject) EXCEPT ![k] = v]
    /\ resp' = NoResponse
    /\ UNCHANGED <<phase, model, scaler, call>>

\* The client writes the next request: a body that is no JSON object
SetOtherBody ==
    /\ phase = "serving"
    /\ \E b \in OtherBodies : req' = b
    /\ resp' = NoResponse
    /\ UNCHANGED <<phase, model, scaler, call>>

predict ==
    /\ phase = "serving"
    /\ \E now \in Nows, scalerOutcome \in ScalerOutcomes,
          modelOutcome \in ModelOutcomes :
         resp' = predict_response(req, now, scalerOutcome, modelOutcome)
    /\ UNCHANGED <<phase, model, scaler, req, call>>

\* Mutant: the health check loads the artifacts again
health_Reloads ==
    /\ phase = "serving"
    /\ resp' = health_response
    /\ \E modelFile \in FileStates, scalerFile \in FileStates :
         LET r == load_model_result(modelFile, scalerFile)
         IN model' = r.model /\ scaler' = r.scaler
    /\ UNCHANGED <<phase, req, call>>

health ==
    /\ phase = "serving"
    /\ resp' = health_response
    /\ UNCHANGED <<phase, model, scaler, req, call>>

Next == load_model \/ SetField \/ SetOtherBody \/ predict \/ health

Spec == Init /\ [][Next]_vars

-----------------------------------------------------------------------------
(* The functions called directly, as a unit test calls them: the arguments *)
(* are drawn at the start, load_model may run between any two calls        *)

MaxAge == 62
MaxFrequency == 11
MaxApplied == 2

UnitAges == 16..MaxAge
UnitFrequencies == (-1)..MaxFrequency
UnitDays == {-1, 29, 30, 55, 56, 75, 90, 91, 180, 181}

UnitWalls ==
    {NowTick - d * TicksPerDay : d \in {0, 1, 56, 400}}
        \cup {NowTick - 56 * TicksPerDay + 1, NowTick + 1, NowTick + 2,
              NowTick + 9}

UnitDates ==
    {JAbsent, JNull, JInt(0), JInt(20240101), JList(<<>>), JList(<<"x">>),
     JStr(DateStr("empty", 0, "none")), JStr(DateStr("bad", 0, "none")),
     JStr(DateStr("bad", 0, "Z"))}
        \cup {JStr(DateStr("iso", w, tz)) :
                w \in UnitWalls, tz \in {"none", "Z", "+05:30"}}
        \cup {PyDatetime(w, tz) : w \in UnitWalls, tz \in {"none", "+05:30"}}
        \cup {PyDate(w) : w \in UnitWalls}

FallbackCall(age, freq, days) ==
    [NoCall EXCEPT !.fn = "fallback", !.age = age, !.freq = freq, !.days = days]

DaysCall(date, now) == [NoCall EXCEPT !.fn = "days", !.date = date, !.now = now]

InitUnit ==
    /\ phase = "unit"
    /\ model = NoneObj
    /\ scaler = NoneObj
    /\ req = EmptyObject
    /\ resp = NoResponse
    /\ call \in {FallbackCall(a, f, d) :
                    a \in UnitAges, f \in UnitFrequencies, d \in UnitDays}
                \cup {DaysCall(date, now) : date \in UnitDates, now \in Nows}

unit_load_model ==
    /\ phase = "unit"
    /\ \E modelFile \in FileStates, scalerFile \in FileStates :
         LET r == load_model_result(modelFile, scalerFile)
         IN /\ model' = r.model
            /\ scaler' = r.scaler
            /\ phase' = IF r.raised THEN "crashed" ELSE "unit"
    /\ UNCHANGED <<req, resp, call>>

\* one call of calculate_fallback_score with the drawn arguments
apply_fallback ==
    /\ phase = "unit"
    /\ call.fn = "fallback"
    /\ call.applied < MaxApplied
    /\ call' = [call EXCEPT !.applied = @ + 1,
                            !.prevOut = call.out,
                            !.prevCtx = call.ctx,
                            !.ctx = model,
                            !.out = calculate_fallback_score(call.age, call.freq,
                                                             call.days)]
    /\ UNCHANGED <<phase, model, scaler, req, resp>>

\* one call of calculate_days_since_last_donation with the drawn arguments
apply_days ==
    /\ phase = "unit"
    /\ call.fn = "days"
    /\ call.applied < MaxApplied
    /\ LET r == calculate_days_since_last_donation(call.date, call.now)
       IN call' = [call EXCEPT !.applied = @ + 1,
                               !.prevOut = call.out,
                               !.prevCtx = call.ctx,
                               !.ctx = model,
                               !.raised = r.raised,
                               !.out = r.value]
    /\ UNCHANGED <<phase, model, scaler, req, resp>>

NextUnit == unit_load_model \/ apply_fallback \/ apply_days

SpecUnit == InitUnit /\ [][NextUnit]_vars

-----------------------------------------------------------------------------
(* Properties of the service (specification Spec)                          *)

IsPredict == resp.kind = "predict"

\* the request body is a JSON object that holds at least one key
NonEmptyObject(body) ==
    /\ body.kind = "object"
    /\ \E k \in DOMAIN body \ {"kind", "len"} : body[k].t # "absent"

\* the request body is absent, {} or []
EmptyOrAbsent(body) ==
    \/ body.kind = "none"
    \/ body.kind = "array" /\ body.len = 0
    \/ body.kind = "object" /\ ~NonEmptyObject(body)

\* the request body holds something: an object with a key, an array with
\* an item
NonEmptyBody(body) ==
    \/ NonEmptyObject(body)
    \/ body.kind = "array" /\ body.len > 0

NoScorerRan ==
    /\ ~resp.reached
    /\ ~resp.out.scalerCalled
    /\ ~resp.out.modelCalled
    /\ ~resp.out.heuristicCalled

\* C1: a failure anywhere on the model path (scaler transform raising,
\* model predict raising, malformed model output) is caught and the request
\* is scored by the heuristic: a request on which an artifact was invoked
\* never ends in an error response (stated for a loaded model).
C1_ModelPathFailureIsCaught ==
    (IsPredict /\ model # NoneObj
       /\ (resp.out.scalerCalled \/ resp.out.modelCalled))
        => (resp.status = 200 /\ resp.out.path \in {"model", "heuristic"})

\* C2: in every successful prediction response the provenance fields name
\* the path that produced the score: trained / 0.85 exactly when the score
\* came from model.predict, fallback / 0.70 exactly when it came from the
\* heuristic scorer.
C2_ProvenanceNamesThePath ==
    (IsPredict /\ resp.status = 200) =>
        /\ (resp.model_used = "trained" /\ resp.confidence = 85)
               <=> (resp.out.path = "model")
        /\ (resp.model_used = "fallback" /\ resp.confidence = 70)
               <=> (resp.out.path = "heuristic")

\* C3: startup never fails, and with no model loaded every prediction
\* request with a non-empty body (here: a JSON object whose region is a
\* string or left out) completes on the heuristic path with the score of
\* calculate_fallback_score, whatever the artifacts do.
C3_NoModelMeansHeuristic ==
    /\ phase # "crashed"
    /\ (/\ phase = "serving" /\ model = NoneObj /\ IsPredict
        /\ NonEmptyObject(resp.body)
        /\ resp.body.region.t \in {"absent", "str"})
          => /\ resp.status = 200
             /\ resp.out.path = "heuristic"
             /\ resp.score = CentiPerPoint *
                    calculate_fallback_score(
                        DictGet(resp.body.age, JInt(30)).v,
                        DictGet(resp.body.donationFrequency, JInt(0)).v,
                        resp.out.days)

\* clamp(prediction * 100, 0, 100) in units of 1/PredUnitsPerOne point
ClaimClamp(prediction) ==
    LET x == prediction * 100
    IN IF x < 0 THEN 0
       ELSE IF x > 100 * PredUnitsPerOne THEN 100 * PredUnitsPerOne
       ELSE x

\* C4: the availabilityScore of a successful response is within [0,100]
\* with two decimals on either path; on the trained path it is
\* clamp(prediction * 100, 0, 100) rounded to the nearest hundredth.
C4_ScoreClampedAndRounded ==
    (IsPredict /\ resp.status = 200) =>
        /\ resp.score \in 0..(100 * CentiPerPoint)
        /\ resp.out.path = "model" =>
             LET exact == ClaimClamp(resp.out.pred)
                 got == resp.score * (PredUnitsPerOne \div CentiPerPoint)
             IN /\ 2 * (got - exact) <= PredUnitsPerOne \div CentiPerPoint
                /\ 2 * (exact - got) <= PredUnitsPerOne \div CentiPerPoint
        /\ resp.out.path = "heuristic" =>
             \E points \in 0..100 : resp.score = points * CentiPerPoint

\* C4 witness: a raw prediction above 1 came back as exactly 100.00
C4_Witness ==
    /\ IsPredict /\ resp.status = 200 /\ resp.out.path = "model"
    /\ resp.out.pred > PredUnitsPerOne
    /\ resp.score = 100 * CentiPerPoint

\* C6 as stated: an empty or absent body is answered 400 'No data
\* provided' with no scorer invoked, and every request with a non-empty
\* body reaches scoring.
C6_Original ==
    IsPredict =>
        /\ EmptyOrAbsent(resp.body) =>
             /\ resp.status = 400
             /\ resp.error = "No data provided"
             /\ NoScorerRan
        /\ NonEmptyBody(resp.body) => resp.reached

\* C6 amended: a body that request.json gives as None, {} or [] is
\* answered 400 'No data provided' with no scorer invoked, and every
\* request whose body is a non-empty JSON object reaches scoring.
C6_EmptyBodyRejected ==
    IsPredict =>
        /\ EmptyOrAbsent(resp.body) =>
             /\ resp.status = 400
             /\ resp.error = "No data provided"
             /\ NoScorerRan
        /\ NonEmptyObject(resp.body) => resp.reached

\* C6 witness: the body {} was answered 400
C6_Witness ==
    /\ IsPredict /\ resp.body = EmptyObject
    /\ resp.status = 400 /\ resp.error = "No data provided"

\* the region factor of the claim's table, in hundredths
ClaimRegionFactor(region) ==
    IF region.t # "str" THEN 20
    ELSE LET low == Lower(region.v)
         IN IF low = <<"n", "o", "r", "t", "h">> THEN 20
            ELSE IF low = <<"s", "o", "u", "t", "h">> THEN 30
            ELSE IF low = <<"e", "a", "s", "t">> THEN 25
            ELSE IF low = <<"w", "e", "s", "t">> THEN 25
            ELSE IF low = <<"c", "e", "n", "t", "r", "a", "l">> THEN 30
            ELSE 20

\* C7: the region factor is total: a known region in any casing yields its
\* table value, every other region input (unknown string, absent field,
\* null) yields 0.20, and no region input ends the request in an error.
C7_RegionFactorTotal ==
    (IsPredict /\ NonEmptyObject(resp.body)
       /\ resp.body.region.t \in {"absent", "null", "str"})
        => /\ resp.error # "region"
           /\ resp.out.regionFactor = ClaimRegionFactor(resp.body.region)

\* C10: once load_model has run, no request changes the model/scaler
\* globals, so the service mode never changes.
C10_GlobalsFrozenAfterStartup ==
    [][phase = "serving" =>
         /\ model' = model
         /\ scaler' = scaler
         /\ phase' = "serving"]_vars

\* C10 witness: a request that failed over to the heuristic was answered
\* while the model stayed loaded
C10_Witness ==
    /\ phase = "serving" /\ model # NoneObj
    /\ IsPredict /\ resp.status = 200
    /\ resp.out.modelCalled /\ resp.out.path = "heuristic"

-----------------------------------------------------------------------------
(* Properties of the functions (specification SpecUnit)                    *)

FallbackApplied == call.fn = "fallback" /\ call.applied >= 1
DaysApplied == call.fn = "days" /\ call.applied >= 1

Band(cond, adjustment) == IF cond THEN {adjustment} ELSE {}

\* the bands of the table that match, as the set of their adjustments
ClaimAgeBands(age) ==
    Band(age \in 25..45, 15)
        \cup Band(age \in 18..24 \/ age \in 46..60, 10)
        \cup Band(~(age \in 18..60), 5)

ClaimFrequencyBands(f) ==
    Band(f >= 10, 20) \cup Band(f \in 5..9, 15) \cup Band(f \in 2..4, 10)
        \cup Band(f = 1, 5) \cup Band(f = 0, 0)

\* the frequency bands with the last one read as "0 or less"
AmendedFrequencyBands(f) ==
    Band(f >= 10, 20) \cup Band(f \in 5..9, 15) \cup Band(f \in 2..4, 10)
        \cup Band(f = 1, 5) \cup Band(f <= 0, 0)

ClaimRecencyBands(d) ==
    Band(d \in 56..90, 15) \cup Band(d \in 30..55, 10) \cup Band(d \in 91..180, 5)
        \cup Band(d > 180, -5) \cup Band(d < 30, 0)

The(S) == CHOOSE x \in S : TRUE

ClaimScore(A, F, R) ==
    LET raw == 50 + The(A) + The(F) + The(R)
    IN IF raw < 0 THEN 0 ELSE IF raw > 100 THEN 100 ELSE raw

\* the band boundaries the claim lists
ClaimBoundaries ==
    /\ AgeFactor(25) = 15 /\ AgeFactor(24) = 10
    /\ AgeFactor(46) = 10 /\ AgeFactor(61) = 5
    /\ FrequencyFactor(10) = 20 /\ FrequencyFactor(9) = 15
    /\ FrequencyFactor(1) = 5 /\ FrequencyFactor(0) = 0
    /\ RecencyFactor(56) = 15 /\ RecencyFactor(55) = 10
    /\ RecencyFactor(181) = -5

\* C5 as stated: for all integer age, donationFrequency and daysSince each
\* factor is given by exactly one band of the table and the score is
\* clamp(50 + A + F + R, 0, 100); the listed boundaries hold and
\* (30, 5, 75) scores 95.
C5_Original ==
    FallbackApplied =>
        LET A == ClaimAgeBands(call.age)
            F == ClaimFrequencyBands(call.freq)
            R == ClaimRecencyBands(call.days)
        IN /\ Cardinality(A) = 1 /\ Cardinality(F) = 1 /\ Cardinality(R) = 1
           /\ call.out = ClaimScore(A, F, R)
           /\ ClaimBoundaries
           /\ (call.age = 30 /\ call.freq = 5 /\ call.days = 75) => call.out = 95

\* C5 amended: the same, with F = 0 for every frequency of 0 or less, so
\* that a negative frequency has its band too.
C5_FallbackScoreTable ==
    FallbackApplied =>
        LET A == ClaimAgeBands(call.age)
            F == AmendedFrequencyBands(call.freq)
            R == ClaimRecencyBands(call.days)
        IN /\ Cardinality(A) = 1 /\ Cardinality(F) = 1 /\ Cardinality(R) = 1
           /\ call.out = ClaimScore(A, F, R)
           /\ ClaimBoundaries
           /\ (call.age = 30 /\ call.freq = 5 /\ call.days = 75) => call.out = 95

\* C5 witness: a negative frequency scored with F = 0: 50 + 15 + 0 + 15
C5_Witness ==
    /\ FallbackApplied
    /\ call.age = 30 /\ call.freq = -1 /\ call.days = 75 /\ call.out = 80

\* the argument is a date the function can read: an ISO string or a
\* native datetime
Parseable(date) ==
    \/ date.t = "str" /\ date.v.fmt = "iso"
    \/ date.t = "datetime"

\* C8: calculate_days_since_last_donation never raises and returns an
\* integer >= 0: 365 for an absent or null date, 365 for whatever fails to
\* parse (malformed string, unsupported type), and for a parseable date
\* max(0, whole days elapsed), so 0 for a date in the future.
C8_DaysSinceTotal ==
    DaysApplied =>
        /\ ~call.raised
        /\ call.out \in Nat
        /\ call.date.t \in {"absent", "null"} => call.out = 365
        /\ ~Parseable(call.date) => call.out = 365
        /\ Parseable(call.date) =>
             LET elapsed == call.now - call.date.v.wall
             IN IF elapsed < 0 THEN call.out = 0
                ELSE /\ call.out * TicksPerDay <= elapsed
                     /\ elapsed < (call.out + 1) * TicksPerDay

\* C8 witness: a malformed string came back as 365
C8_Witness ==
    /\ DaysApplied
    /\ call.date.t = "str" /\ call.date.v.fmt = "bad"
    /\ ~call.raised /\ call.out = 365

=============================================================================
